---------------------------- MODULE Spec2Model ----------------------------
(***************************************************************************)
(* A model of rnodeAPI (src/main.js): the RHOCore transcoder               *)
(* (fromJSData, toJSData, toRholang) and the promise adapter `send` with   *)
(* the RNode methods built on it (deployResponse, listenForDataAtName).    *)
(*                                                                         *)
(* JavaScript values are tagged records (the tag is what `typeof` gives);  *)
(* a JavaScript string is a sequence of one-character strings, so that     *)
(* sorting, quoting and joining are computed and not assumed.  A thrown    *)
(* exception is an outcome [ok |-> FALSE, err |-> e]; a returned value is  *)
(* [ok |-> TRUE, val |-> v].                                               *)
(***************************************************************************)
EXTENDS Integers, Sequences, FiniteSets

(***************************************************************************)
(* Bounds of the model.                                                    *)
(***************************************************************************)
\* Largest number of nodes (scalars, arrays, maps) of a native input value.
MaxSize == 4
\* Largest number of nodes of an externally supplied term.
MaxTermSize == 4
\* Largest number of sends of an externally supplied map.
MaxSends == 3
\* Largest number of times the node invokes one callback.
MaxCallbacks == 3

(***************************************************************************)
(* JavaScript values.                                                      *)
(***************************************************************************)
Bool(b) == [type |-> "boolean", bool |-> b]
\* The number num/den; den is 1 (an integer) or 2 (a fractional number).
Num(n, d) == [type |-> "number", num |-> n, den |-> d]
IntNum(n) == Num(n, 1)
Str(s) == [type |-> "string", str |-> s]
Null == [type |-> "object", null |-> TRUE]
\* An array and its items.
Arr(items) == [type |-> "object", arr |-> items]
\* A plain object: its own properties [key, value], in property order.
Obj(props) == [type |-> "object", props |-> props]
Undefined == [type |-> "undefined"]
Function == [type |-> "function"]

IsArr(x) == x.type = "object" /\ "arr" \in DOMAIN x
IsObj(x) == x.type = "object" /\ "props" \in DOMAIN x
IsInteger(x) == x.type = "number" /\ x.den = 1

\* Outcomes of a call: a returned value or a thrown exception.
Return(v) == [ok |-> TRUE, val |-> v]
Throw(e) == [ok |-> FALSE, err |-> e]
Error(msg) == [name |-> "Error", message |-> msg]
\* `${n} exprs not part of RHOCore`
ExprsError(n) == [name |-> "Error", message |-> "exprs not part of RHOCore",
                  count |-> n]
TypeError(msg) == [name |-> "TypeError", message |-> msg]

\* array.map(f) where outs[i] is the outcome of f(array[i]): the first
\* exception thrown ends the map, otherwise the array of results.
MapOutcome(outs) ==
    IF \E i \in 1..Len(outs) : ~outs[i].ok
    THEN outs[CHOOSE i \in 1..Len(outs) :
                  ~outs[i].ok /\ \A j \in 1..(i - 1) : outs[j].ok]
    ELSE Return([i \in 1..Len(outs) |-> outs[i].val])

(***************************************************************************)
(* Text: code units, comparison, conversion of numbers, join.              *)
(***************************************************************************)
\* The UTF-16 code unit of each character the model's strings use.
CodeUnit(c) ==
    CASE c = "\"" -> 34
      [] c = "," -> 44
      [] c = "0" -> 48
      [] c = "1" -> 49
      [] c = "2" -> 50
      [] c = "B" -> 66
      [] c = "\\" -> 92
      [] c = "a" -> 97
      [] c = "b" -> 98

\* a < b as Array.prototype.sort's default comparison orders two strings:
\* by code units, a proper prefix first.
StrLess(a, b) ==
    \E i \in 1..(Len(a) + 1) :
        /\ i <= Len(b)
        /\ \A j \in 1..(i - 1) : a[j] = b[j]
        /\ (i = Len(a) + 1 \/ CodeUnit(a[i]) < CodeUnit(b[i]))

Digit(d) == <<"0", "1", "2", "3", "4", "5", "6", "7", "8", "9">>[d + 1]

RECURSIVE Digits(_)
Digits(n) == IF n < 10 THEN <<Digit(n)>>
             ELSE Digits(n \div 10) \o <<Digit(n % 10)>>

\* Number::toString for the numbers of the model (integers and halves).
NumberToString(x) ==
    LET abs == IF x.num < 0 THEN -x.num ELSE x.num
        sign == IF x.num < 0 THEN <<"-">> ELSE <<>>
    IN  IF x.den = 1 THEN sign \o Digits(abs)
        ELSE sign \o Digits(abs \div 2) \o <<".", "5">>

RECURSIVE Join(_, _)
\* texts.join(sep)
Join(texts, sep) ==
    IF Len(texts) = 0 THEN <<>>
    ELSE IF Len(texts) = 1 THEN texts[1]
    ELSE texts[1] \o sep \o Join(Tail(texts), sep)

RECURSIVE ToPropertyKey(_)
\* The string a computed property key [x] becomes (ToPropertyKey, which for
\* these values is String(x)).
ToPropertyKey(x) ==
    CASE x.type = "boolean" ->
            IF x.bool THEN <<"t", "r", "u", "e">> ELSE <<"f", "a", "l", "s", "e">>
      [] x.type = "number" -> NumberToString(x)
      [] x.type = "string" -> x.str
      [] x.type = "undefined" -> <<"u", "n", "d", "e", "f", "i", "n", "e", "d">>
      [] x = Null -> <<"n", "u", "l", "l">>
      [] IsArr(x) ->
            Join([i \in 1..Len(x.arr) |->
                     IF x.arr[i] = Null \/ x.arr[i] = Undefined THEN <<>>
                     ELSE ToPropertyKey(x.arr[i])], <<",">>)
      [] IsObj(x) -> <<"[", "o", "b", "j", "e", "c", "t", " ",
                      "O", "b", "j", "e", "c", "t", "]">>

(***************************************************************************)
(* Plain objects: own properties in property order.                        *)
(***************************************************************************)
HasKey(props, k) == \E i \in 1..Len(props) : props[i].key = k

\* obj[k]
Get(props, k) ==
    IF HasKey(props, k)
    THEN props[CHOOSE i \in 1..Len(props) : props[i].key = k].value
    ELSE Undefined

\* CreateDataProperty: an existing key keeps its place and takes the new
\* value, a new key goes last.
DefineProp(props, k, v) ==
    IF HasKey(props, k)
    THEN [i \in 1..Len(props) |->
             IF props[i].key = k THEN [key |-> k, value |-> v] ELSE props[i]]
    ELSE Append(props, [key |-> k, value |-> v])

\* Object.keys(obj)
ObjectKeys(props) == [i \in 1..Len(props) |-> props[i].key]

\* The keys as Object.keys gave them: a sort that was left out.
SortKeys_Omitted(keys) == keys

\* keys.sort(): the keys in ascending order (the keys of an object are
\* distinct, so each key's place is the number of keys before it).
SortKeys(keys) ==
    [i \in 1..Len(keys) |->
        CHOOSE k \in {keys[j] : j \in 1..Len(keys)} :
            Cardinality({j \in 1..Len(keys) : StrLess(keys[j], k)}) = i - 1]

(***************************************************************************)
(* RHOCore terms.  A Par is an object that may hold `exprs` (a sequence of *)
(* Expr) and `sends` (a sequence of Send); {} is Nil.  An Expr is          *)
(* {g_bool | g_int | g_string | e_list_body, expr_instance}; a Send is     *)
(* {chan: {quote: Par}, data: [Par]}.                                      *)
(***************************************************************************)
EmptyPar == [f \in {} |-> 0]

GBool(x) == [g_bool |-> x, expr_instance |-> "g_bool"]
GInt(x) == [g_int |-> x, expr_instance |-> "g_int"]
GString(x) == [g_string |-> x, expr_instance |-> "g_string"]
EList(ps) == [e_list_body |-> [ps |-> ps], expr_instance |-> "e_list_body"]
Send(quote, data) == [chan |-> [quote |-> quote], data |-> data]

(***************************************************************************)
(* fromJSData                                                              *)
(***************************************************************************)
RECURSIVE fromJSData_recur(_)

\* const expr1 = kv => ({ exprs: [kv] })
expr1(kv) == [exprs |-> <<kv>>]

\* toArry that encodes the items after the first only.
toArry_DropsFirst(items) ==
    LET ps == MapOutcome([i \in 1..(Len(items) - 1) |->
                             fromJSData_recur(items[i + 1])])
    IN  IF ps.ok THEN Return(expr1(EList(ps.val))) ELSE ps

toArry(items) ==
    LET ps == MapOutcome([i \in 1..Len(items) |-> fromJSData_recur(items[i])])
    IN  IF ps.ok THEN Return(expr1(EList(ps.val))) ELSE ps

keysValues(obj) ==
    LET keys == SortKeys(ObjectKeys(obj.props))
        data == MapOutcome([i \in 1..Len(keys) |->
                               fromJSData_recur(Get(obj.props, keys[i]))])
    IN  IF data.ok
        THEN Return([sends |-> [i \in 1..Len(keys) |->
                        Send(expr1(GString(Str(keys[i]))), <<data.val[i]>>)]])
        ELSE data

fromJSData_recur(x) ==
    CASE x.type = "boolean" -> Return(expr1(GBool(x)))
      [] x.type = "number" -> Return(expr1(GInt(x)))
      [] x.type = "string" -> Return(expr1(GString(x)))
      [] x.type = "object" ->
            IF x = Null THEN Return(EmptyPar)
            ELSE IF IsArr(x) THEN toArry(x.arr)
            ELSE keysValues(x)
      [] OTHER -> Throw(Error("no mapping to RHOCore for " \o x.type))

fromJSData(data) == fromJSData_recur(data)

(***************************************************************************)
(* toJSData                                                                *)
(***************************************************************************)
RECURSIVE toJSData_recur(_)
RECURSIVE toJSData_reduce(_, _)
RECURSIVE Spread(_, _)

\* { ...source } written after the properties `target` already holds: each
\* own property of source is defined on the object in turn.
Spread(target, source) ==
    IF Len(source) = 0 THEN target
    ELSE Spread(DefineProp(target, source[1].key, source[1].value),
                Tail(source))

\* The object literal written ({ ...acc, [key]: value }): the new property
\* defined after the spread.
ReducerObject_SpreadFirst(key, value, acc) ==
    Obj(DefineProp(acc.props, ToPropertyKey(key), value))

\* The object literal ({ [key]: value, ...acc }) of the reducer.
ReducerObject(key, value, acc) ==
    Obj(Spread(<<[key |-> ToPropertyKey(key), value |-> value]>>, acc.props))

\* (acc, s) => ({ [recur(s.chan.quote)]: recur(s.data[0]), ...acc })
toJSData_reducer(acc, s) ==
    LET key == toJSData_recur(s.chan.quote)
        value == toJSData_recur(IF Len(s.data) > 0 THEN s.data[1]
                                ELSE Undefined)
    IN  IF ~key.ok THEN key
        ELSE IF ~value.ok THEN value
        ELSE Return(ReducerObject(key.val, value.val, acc))

\* sends.reduce(reducer, acc)
toJSData_reduce(sends, acc) ==
    IF Len(sends) = 0 THEN Return(acc)
    ELSE LET next == toJSData_reducer(acc, sends[1])
         IN  IF next.ok THEN toJSData_reduce(Tail(sends), next.val) ELSE next

toJSData_recur(p) ==
    IF p = Undefined
    THEN Throw(TypeError("Cannot read property 'exprs' of undefined"))
    ELSE IF "exprs" \in DOMAIN p /\ Len(p.exprs) > 0
    THEN IF Len(p.exprs) > 1
         THEN Throw(ExprsError(Len(p.exprs)))
         ELSE LET ex == p.exprs[1]
              IN  CASE ex.expr_instance = "g_bool" -> Return(ex.g_bool)
                    [] ex.expr_instance = "g_int" -> Return(ex.g_int)
                    [] ex.expr_instance = "g_string" -> Return(ex.g_string)
                    [] ex.expr_instance = "e_list_body" ->
                          LET items == MapOutcome(
                                  [i \in 1..Len(ex.e_list_body.ps) |->
                                      toJSData_recur(ex.e_list_body.ps[i])])
                          IN  IF items.ok THEN Return(Arr(items.val)) ELSE items
                    [] OTHER -> Throw(Error("not RHOCore? [object Object]"))
    ELSE IF "sends" \in DOMAIN p
    THEN toJSData_reduce(p.sends, Obj(<<>>))
    ELSE Return(Null)

toJSData(par) == toJSData_recur(par)

(***************************************************************************)
(* toRholang                                                               *)
(***************************************************************************)
RECURSIVE toRholang_recur(_)

\* A string put between quotes with nothing escaped.
Quote_Unescaped(str) == <<"\"">> \o str \o <<"\"">>

\* JSON.stringify of a string: quoted, with " and \ escaped.
Quote(str) ==
    <<"\"">>
    \o Join([i \in 1..Len(str) |->
                IF str[i] \in {"\"", "\\"} THEN <<"\\", str[i]>>
                ELSE <<str[i]>>], <<>>)
    \o <<"\"">>

\* const src = x => JSON.stringify(x)
src(x) ==
    CASE x.type = "boolean" ->
            IF x.bool THEN <<"t", "r", "u", "e">> ELSE <<"f", "a", "l", "s", "e">>
      [] x.type = "number" -> NumberToString(x)
      [] x.type = "string" -> Quote(x.str)

\* const ea = s => `@${recur(s.chan.quote)}!(${s.data.map(recur).join(', ')})`
ea(s) ==
    LET chan == toRholang_recur(s.chan.quote)
        data == MapOutcome([i \in 1..Len(s.data) |->
                               toRholang_recur(s.data[i])])
    IN  IF ~chan.ok THEN chan
        ELSE IF ~data.ok THEN data
        ELSE Return(<<"@">> \o chan.val \o <<"!", "(">>
                    \o Join(data.val, <<",", " ">>) \o <<")">>)

toRholang_recur(p) ==
    IF "exprs" \in DOMAIN p /\ Len(p.exprs) > 0
    THEN IF Len(p.exprs) > 1
         THEN Throw(ExprsError(Len(p.exprs)))
         ELSE LET ex == p.exprs[1]
              IN  CASE ex.expr_instance = "g_bool" -> Return(src(ex.g_bool))
                    [] ex.expr_instance = "g_int" -> Return(src(ex.g_int))
                    [] ex.expr_instance = "g_string" -> Return(src(ex.g_string))
                    [] ex.expr_instance = "e_list_body" ->
                          LET items == MapOutcome(
                                  [i \in 1..Len(ex.e_list_body.ps) |->
                                      toRholang_recur(ex.e_list_body.ps[i])])
                          IN  IF items.ok
                              THEN Return(<<"[">> \o Join(items.val, <<",", " ">>)
                                          \o <<"]">>)
                              ELSE items
                    [] OTHER -> Throw(Error("not RHOCore? [object Object]"))
    ELSE IF "sends" \in DOMAIN p
    THEN LET sends == MapOutcome([i \in 1..Len(p.sends) |-> ea(p.sends[i])])
         IN  IF sends.ok THEN Return(Join(sends.val, <<" ", "|", " ">>))
             ELSE sends
    ELSE Return(<<"N", "i", "l">>)

toRholang(par) == toRholang_recur(par)

(***************************************************************************)
(* The inputs of the model.                                                *)
(***************************************************************************)
\* Leaves that fromJSData supports, and leaves it does not.
SupportedAtoms ==
    {Bool(TRUE), Bool(FALSE), IntNum(-12), Str(<<"a", "\"">>), Null}
UnsupportedAtoms == {Num(3, 2), Undefined, Function}
\* Keys of native maps (none is an array index, so property order is
\* insertion order).
Keys == {<<"a">>, <<"a", "b">>, <<"B">>}

\* The sequences of n pairwise distinct keys.
KeySeqs(n) ==
    {ks \in [1..n -> Keys] : \A i, j \in 1..n : ks[i] = ks[j] => i = j}

\* The one element of a singleton set.
Only(S) == CHOOSE x \in S : TRUE

\* The sequences <<x>> \o rest of total size n, with x of size k taken from
\* bySize[k] and rest of total size n - k taken from seqs[n - k + 1].
SeqsOfTotal(bySize, seqs, n) ==
    UNION {{<<x>> \o rest : x \in bySize[k], rest \in seqs[n - k + 1]}
           : k \in 1..n}

\* The map with keys ks[i] and values vs[i], in this property order.
ObjOf(ks, vs) == Obj([i \in 1..Len(vs) |-> [key |-> ks[i], value |-> vs[i]]])

\* The values of exactly n nodes over the given leaves, seqs being the set
\* of sequences of values whose sizes add up to n - 1: a leaf, an array of
\* values, or a map from distinct keys to values.
ValuesOfSize(atoms, seqs, n) ==
    (IF n = 1 THEN atoms ELSE {})
    \cup {Arr(items) : items \in seqs}
    \cup UNION {{ObjOf(ks, vs) : ks \in KeySeqs(Len(vs))} : vs \in seqs}

RECURSIVE ValueTable(_, _)
\* [v |-> V, s |-> S]: V[k] is the set of values of exactly k nodes, for k
\* in 1..n, and S[k + 1] the set of sequences of values whose sizes add up
\* to k, for k in 0..n-1.
ValueTable(atoms, n) ==
    IF n = 0 THEN [v |-> <<>>, s |-> <<>>]
    ELSE Only({Only({[v |-> Append(t.v, ValuesOfSize(atoms, seqs, n)),
                      s |-> Append(t.s, seqs)]
                        : seqs \in {IF n = 1 THEN {<<>>}
                                    ELSE SeqsOfTotal(t.v, t.s, n - 1)}})
                  : t \in {ValueTable(atoms, n - 1)}})

\* x is a value of at most max nodes over the given leaves.
NativeInput(x, atoms, max) ==
    \E t \in {ValueTable(atoms, max - 1)} :
        \/ x \in atoms \cup {Arr(<<>>), Obj(<<>>)}
        \/ \E m \in 1..(max - 1) : \E k \in 1..m :
             \E first \in t.v[k] : \E rest \in t.s[m - k + 1] :
                \/ x = Arr(<<first>> \o rest)
                \/ \E ks \in KeySeqs(Len(rest) + 1) :
                      x = ObjOf(ks, <<first>> \o rest)

\* Leaves of externally supplied terms: Nil, literals, a node of two
\* expressions, and an expression that is none of RHOCore's.
TermLeaves ==
    { EmptyPar,
      expr1(GInt(IntNum(1))),
      expr1(GString(Str(<<"1">>))),
      expr1(GString(Str(<<"a">>))),
      [exprs |-> <<GInt(IntNum(1)), GString(Str(<<"a">>))>>],
      expr1([g_uri |-> Str(<<"a">>), expr_instance |-> "g_uri"]) }

\* The sends of exactly m nodes: a channel and any number of payloads.
SendsOfSize(terms, termSeqs, m) ==
    UNION {{Send(quote, data) : quote \in terms[k],
                                data \in termSeqs[m - k + 1]}
           : k \in 1..m}

\* The terms of exactly n nodes, termSeqs and sendSeqs being the sets of
\* sequences of terms and of sends whose sizes add up to n - 1, and
\* fewerSends those that add up to n - 2: a leaf, a list, a sends node, or
\* a node that holds a literal and sends at once.
TermsOfSize(termSeqs, sendSeqs, fewerSends, n) ==
    (IF n = 1 THEN TermLeaves ELSE {})
    \cup {expr1(EList(ps)) : ps \in termSeqs}
    \cup {[sends |-> sends] : sends \in sendSeqs}
    \cup {[exprs |-> <<GInt(IntNum(1))>>, sends |-> sends]
             : sends \in fewerSends}

RECURSIVE TermTable(_)
\* [t |-> T, ts |-> TS, ss |-> SS]: T[k] is the set of terms of exactly k
\* nodes, for k in 1..n, and TS[k + 1] the set of sequences of terms and
\* SS[k + 1] the set of sequences of sends whose sizes add up to k, for k
\* in 0..n-1.
TermTable(n) ==
    IF n = 0 THEN [t |-> <<>>, ts |-> <<>>, ss |-> <<>>]
    ELSE Only({Only({Only({
            [t |-> Append(p.t, TermsOfSize(termSeqs, sendSeqs,
                                 IF n = 1 THEN {} ELSE p.ss[n - 1], n)),
             ts |-> Append(p.ts, termSeqs),
             ss |-> Append(p.ss, sendSeqs)]
            : sendSeqs \in {IF n = 1 THEN {<<>>}
                            ELSE SeqsOfTotal(
                                   [m \in 1..(n - 1) |->
                                       SendsOfSize(p.t, p.ts, m)],
                                   p.ss, n - 1)}})
            : termSeqs \in {IF n = 1 THEN {<<>>}
                            ELSE SeqsOfTotal(p.t, p.ts, n - 1)}})
            : p \in {TermTable(n - 1)}})

\* x is a term of at most max nodes.
TermInput(x, max) ==
    \E p \in {TermTable(max - 1)} :
        \/ x \in TermLeaves \cup {expr1(EList(<<>>)), [sends |-> <<>>]}
        \/ x = [exprs |-> <<GInt(IntNum(1))>>, sends |-> <<>>]
        \/ \E m \in 1..(max - 1) : \E k \in 1..m :
             \E first \in p.t[k] : \E rest \in p.ts[m - k + 1] :
                x = expr1(EList(<<first>> \o rest))
        \/ \E m \in 1..(max - 1) : \E k \in 1..m : \E j \in 1..k :
             \E quote \in p.t[j] : \E payload \in p.ts[k - j + 1] :
                \E rest \in p.ss[m - k + 1] :
                   LET sends == <<Send(quote, payload)>> \o rest
                   IN  \/ x = [sends |-> sends]
                       \/ /\ m < max - 1
                          /\ x = [exprs |-> <<GInt(IntNum(1))>>,
                                  sends |-> sends]

\* Channels and payloads of the maps supplied from outside: a channel of
\* each kind (string, integer, boolean, Nil, list, map), one payload each.
Channels ==
    { expr1(GString(Str(<<"1">>))), expr1(GString(Str(<<"a">>))),
      expr1(GInt(IntNum(1))), expr1(GBool(Bool(TRUE))), EmptyPar,
      expr1(EList(<<>>)), [sends |-> <<>>] }
Payloads == {EmptyPar, expr1(GInt(IntNum(1))), expr1(GString(Str(<<"a">>)))}

RECURSIVE MapSends(_)
\* The sequences of exactly n sends, each Send(channel, <<payload>>).
MapSends(n) ==
    IF n = 0 THEN {<<>>}
    ELSE {Append(sends, Send(quote, <<payload>>))
             : sends \in MapSends(n - 1),
               quote \in Channels, payload \in Payloads}

\* x is a sends node of at most max sends with one payload each.
MapInput(x, max) ==
    \E n \in 1..max : \E sends \in MapSends(n - 1) :
        \E quote \in Channels : \E payload \in Payloads :
            x = [sends |-> Append(sends, Send(quote, <<payload>>))]

(***************************************************************************)
(* send, and the RNode methods built on it.                                *)
(***************************************************************************)
Pending == [state |-> "pending"]
Fulfilled(value) == [state |-> "fulfilled", value |-> value]
Rejected(reason) == [state |-> "rejected", reason |-> reason]

\* resolve(value) and reject(reason) of a promise's executor: they settle
\* a pending promise and leave a settled one as it is.
Resolve(promise, value) ==
    IF promise.state = "pending" THEN Fulfilled(value) ELSE promise
Reject(promise, reason) ==
    IF promise.state = "pending" THEN Rejected(reason) ELSE promise

\* Whether `if (x)` takes the branch.
Truthy(x) ==
    x \notin {Undefined, Null, Bool(FALSE), IntNum(0), Str(<<>>)}

\* The promise send(calling) returns: calling has been given the callback.
send == Pending

\* The callback written with resolve before the test of err.
callback_ResolveFirst(promise, err, result) ==
    IF Truthy(err) THEN Reject(Resolve(promise, result), err)
    ELSE Resolve(promise, result)

\* One invocation of send's callback on the promise as it stands:
\* (err, result) => { if (err) { reject(err); } resolve(result); }
callback(promise, err, result) ==
    IF Truthy(err) THEN Resolve(Reject(promise, err), result)
    ELSE Resolve(promise, result)

\* The handler without its test of the status.
listenForDataAtName_then_NoCheck(response) ==
    IF response \in {Undefined, Null}
    THEN Throw(TypeError("Cannot read property 'status' of undefined"))
    ELSE Return(IF "blockResults" \in DOMAIN response
                THEN response.blockResults ELSE Undefined)

\* The handler listenForDataAtName gives to then.
listenForDataAtName_then(response) ==
    IF response \in {Undefined, Null}
    THEN Throw(TypeError("Cannot read property 'status' of undefined"))
    ELSE IF "status" \notin DOMAIN response \/ response.status # "Success"
    THEN Throw(Error("[object Object]"))
    ELSE Return(IF "blockResults" \in DOMAIN response
                THEN response.blockResults ELSE Undefined)

\* The handler deployResponse gives to then.
deployResponse_then(response) ==
    IF response \in {Undefined, Null}
    THEN Throw(TypeError("Cannot read property 'success' of undefined"))
    ELSE IF "success" \notin DOMAIN response \/ ~response.success
    THEN Throw(Error(IF "message" \in DOMAIN response THEN response.message
                     ELSE "undefined"))
    ELSE Return(response.message)

\* promise.then(handler) once promise is settled, handled being the
\* outcome of handler(promise.value): the promise then returned.
Then(promise, handled) ==
    IF promise.state = "rejected" THEN promise
    ELSE IF handled.ok THEN Fulfilled(handled.val)
    ELSE Rejected(handled.err)

(***************************************************************************)
(* The state machines: a caller of the transcoder, who holds a native      *)
(* value or an externally supplied term and applies the three functions,   *)
(* and a caller of an RNode method, whose callback the node invokes.       *)
(***************************************************************************)
VARIABLES
    data,       \* the native value given to fromJSData, or None
    encoded,    \* the outcome of fromJSData(data), or None
    par,        \* the term fromJSData returned or the caller supplied
    decoded,    \* the outcome of toJSData(par), or None
    rholang,    \* the outcome of toRholang(par), or None
    method,     \* the RNode method called, or "idle"
    thrown,     \* the exception the method threw instead of returning
    sendP,      \* the promise send returned
    resultP,    \* the promise the method returned
    reactions,  \* the queued jobs that run the method's then handler
    invocations \* the (err, result) of each invocation of the callback

coreVars == <<data, encoded, par, decoded, rholang>>
nodeVars == <<method, thrown, sendP, resultP, reactions, invocations>>
vars == <<coreVars, nodeVars>>

None == [none |-> TRUE]

NoCall ==
    /\ method = "idle"
    /\ thrown = None
    /\ sendP = None
    /\ resultP = None
    /\ reactions = 0
    /\ invocations = <<>>

\* A supported value of at most MaxSize nodes, or a value with unsupported
\* leaves of one node less.
InitNative ==
    /\ \/ NativeInput(data, SupportedAtoms, MaxSize)
       \/ NativeInput(data, SupportedAtoms \cup UnsupportedAtoms, MaxSize - 1)
    /\ encoded = None
    /\ par = None
    /\ decoded = None
    /\ rholang = None
    /\ NoCall

\* A term of at most MaxTermSize nodes, or a map of at most MaxSends sends.
InitTerm ==
    /\ data = None
    /\ encoded = None
    /\ \/ TermInput(par, MaxTermSize)
       \/ MapInput(par, MaxSends)
    /\ decoded = None
    /\ rholang = None
    /\ NoCall

InitNode ==
    /\ data = None
    /\ encoded = None
    /\ par = None
    /\ decoded = None
    /\ rholang = None
    /\ NoCall

FromJSData ==
    /\ data # None
    /\ encoded = None
    /\ encoded' = fromJSData(data)
    /\ par' = IF encoded'.ok THEN encoded'.val ELSE None
    /\ UNCHANGED <<data, decoded, rholang, nodeVars>>

ToJSData ==
    /\ par # None
    /\ decoded = None
    /\ decoded' = toJSData(par)
    /\ UNCHANGED <<data, encoded, par, rholang, nodeVars>>

ToRholang ==
    /\ par # None
    /\ rholang = None
    /\ rholang' = toRholang(par)
    /\ UNCHANGED <<data, encoded, par, decoded, nodeVars>>

\* The names listenForDataAtName is called with.
NameObjs == {Str(<<"a">>), Obj(<<>>), Function, Arr(<<Undefined>>)}

\* What the node hands the callback as err and as result.
Errs == {Null, Undefined, [name |-> "Error", message |-> "UNAVAILABLE"]}
Results ==
    { Undefined,
      [status |-> "Success", blockResults |-> <<>>],
      [status |-> "Success", blockResults |-> <<"block">>],
      [status |-> "NoSuchData", blockResults |-> <<>>],
      [success |-> TRUE, message |-> "Success!"],
      [success |-> FALSE, message |-> "no deploys" ] }

\* listenForDataAtName(nameObj): fromJSData may throw before any promise is
\* made; otherwise the request is sent and the promise returned.
ListenForDataAtName(nameObj) ==
    /\ method = "idle"
    /\ method' = "listenForDataAtName"
    /\ LET quote == fromJSData(nameObj)
       IN  IF quote.ok
           THEN /\ sendP' = send
                /\ resultP' = Pending
                /\ thrown' = None
           ELSE /\ thrown' = quote.err
                /\ UNCHANGED <<sendP, resultP>>
    /\ UNCHANGED <<coreVars, reactions, invocations>>

\* doDeploy, createBlock and addBlock: deployResponse(send(...)).
Deploy(name) ==
    /\ method = "idle"
    /\ method' = name
    /\ sendP' = send
    /\ resultP' = Pending
    /\ UNCHANGED <<coreVars, thrown, reactions, invocations>>

\* The node invokes the callback; settling sendP queues the then handler.
NodeCallback(err, result) ==
    /\ sendP # None
    /\ Len(invocations) < MaxCallbacks
    /\ sendP' = callback(sendP, err, result)
    /\ invocations' = Append(invocations, [err |-> err, result |-> result])
    /\ reactions' = IF sendP.state = "pending" /\ sendP'.state # "pending"
                    THEN reactions + 1 ELSE reactions
    /\ UNCHANGED <<coreVars, method, thrown, resultP>>

\* The queued job runs the method's handler and settles the promise the
\* method returned.
RunReaction ==
    /\ reactions > 0
    /\ reactions' = reactions - 1
    /\ resultP' =
          Then(sendP,
               IF sendP.state # "fulfilled" THEN None
               ELSE IF method = "listenForDataAtName"
               THEN listenForDataAtName_then(sendP.value)
               ELSE deployResponse_then(sendP.value))
    /\ UNCHANGED <<coreVars, method, thrown, sendP, invocations>>

Next == FromJSData \/ ToJSData \/ ToRholang

\* A native value is encoded, then decoded and printed.
Spec == InitNative /\ [][Next]_vars

NextTerm == ToJSData \/ ToRholang

\* A term supplied from outside is decoded and printed.
SpecTerm == InitTerm /\ [][NextTerm]_vars

NextNode ==
    \/ \E nameObj \in NameObjs : ListenForDataAtName(nameObj)
    \/ \E name \in {"doDeploy", "createBlock", "addBlock"} : Deploy(name)
    \/ \E err \in Errs, result \in Results : NodeCallback(err, result)
    \/ RunReaction

\* An RNode method is called and the node answers.
SpecNode == InitNode /\ [][NextNode]_vars

(***************************************************************************)
(* Vocabulary of the properties.                                           *)
(***************************************************************************)
RECURSIVE IsSupported(_)
\* v is built from booleans, integers, strings, null, arrays of supported
\* values and string-keyed maps of supported values.
IsSupported(v) ==
    CASE v.type = "boolean" -> TRUE
      [] v.type = "number" -> IsInteger(v)
      [] v.type = "string" -> TRUE
      [] v.type = "object" ->
            IF v = Null THEN TRUE
            ELSE IF IsArr(v)
            THEN \A i \in 1..Len(v.arr) : IsSupported(v.arr[i])
            ELSE \A i \in 1..Len(v.props) : IsSupported(v.props[i].value)
      [] OTHER -> FALSE

RECURSIVE StructEq(_, _)
\* Structural equality of native values: arrays item by item, maps by
\* their key/value pairs whatever the order of the keys.
StructEq(a, b) ==
    IF IsArr(a) /\ IsArr(b)
    THEN /\ Len(a.arr) = Len(b.arr)
         /\ \A i \in 1..Len(a.arr) : StructEq(a.arr[i], b.arr[i])
    ELSE IF IsObj(a) /\ IsObj(b)
    THEN /\ {a.props[i].key : i \in 1..Len(a.props)}
              = {b.props[i].key : i \in 1..Len(b.props)}
         /\ Len(a.props) = Len(b.props)
         /\ \A i \in 1..Len(a.props) :
               StructEq(a.props[i].value, Get(b.props, a.props[i].key))
    ELSE a = b

\* The keys of a map come in an order that is not the ascending one.
Unsorted(v) ==
    /\ IsObj(v)
    /\ \E i \in 1..(Len(v.props) - 1) :
          StrLess(v.props[i + 1].key, v.props[i].key)

\* C1: for every supported native value, decoding its encoding succeeds
\* and gives a value structurally equal to it (maps compared by key/value
\* pairs, not by key order).
C1_RoundTrip ==
    (data # None /\ IsSupported(data)) =>
        /\ encoded # None => encoded.ok
        /\ decoded # None => decoded.ok /\ StructEq(decoded.val, data)

\* C1's case: a map whose keys were inserted out of order, holding a
\* nested array or map, has been encoded and decoded.
C1_Witness ==
    /\ decoded # None
    /\ data # None
    /\ IsSupported(data)
    /\ Unsorted(data)
    /\ \E i \in 1..Len(data.props) :
          /\ IsArr(data.props[i].value) \/ IsObj(data.props[i].value)
          /\ data.props[i].value \notin {Arr(<<>>), Obj(<<>>)}

RECURSIVE Canonical(_, _)
\* term encodes v with, for every map of v at every level, one send per
\* key, the channels being the keys as string literals in strictly
\* ascending order, each with the one payload that encodes the key's value.
Canonical(v, term) ==
    IF IsArr(v)
    THEN LET ps == term.exprs[1].e_list_body.ps
         IN  /\ Len(ps) = Len(v.arr)
             /\ \A i \in 1..Len(ps) : Canonical(v.arr[i], ps[i])
    ELSE IF IsObj(v)
    THEN /\ Len(term.sends) = Len(v.props)
         /\ \A i \in 1..Len(term.sends) :
               LET quote == term.sends[i].chan.quote
               IN  /\ Len(quote.exprs) = 1
                   /\ quote.exprs[1].expr_instance = "g_string"
                   /\ HasKey(v.props, quote.exprs[1].g_string.str)
                   /\ Len(term.sends[i].data) = 1
                   /\ Canonical(Get(v.props, quote.exprs[1].g_string.str),
                                term.sends[i].data[1])
         /\ \A i \in 1..(Len(term.sends) - 1) :
               StrLess(term.sends[i].chan.quote.exprs[1].g_string.str,
                       term.sends[i + 1].chan.quote.exprs[1].g_string.str)
    ELSE TRUE

\* The map with the same properties inserted in the opposite order.
Reversed(v) ==
    Obj([i \in 1..Len(v.props) |-> v.props[Len(v.props) + 1 - i]])

\* C2: the encoding of a native value has, for every map in it at every
\* nesting level, exactly one send per key with the channel texts strictly
\* ascending; and the same map with its keys inserted in the opposite
\* order encodes to the identical term.
C2_CanonicalKeyOrder ==
    (encoded # None /\ encoded.ok) =>
        /\ Canonical(data, par)
        /\ IsObj(data) => fromJSData(Reversed(data)) = encoded

\* C2's case: a map nested in a map, its keys inserted out of order, has
\* been encoded.
C2_Witness ==
    /\ encoded # None
    /\ encoded.ok
    /\ IsObj(data)
    /\ \E i \in 1..Len(data.props) : Unsorted(data.props[i].value)

RECURSIVE HasFractionalInt(_)
\* Some g_int literal in the term holds a number that is not an integer.
HasFractionalInt(term) ==
    \/ /\ "exprs" \in DOMAIN term
       /\ \E i \in 1..Len(term.exprs) :
            \/ /\ term.exprs[i].expr_instance = "g_int"
               /\ ~IsInteger(term.exprs[i].g_int)
            \/ /\ term.exprs[i].expr_instance = "e_list_body"
               /\ \E j \in 1..Len(term.exprs[i].e_list_body.ps) :
                     HasFractionalInt(term.exprs[i].e_list_body.ps[j])
    \/ /\ "sends" \in DOMAIN term
       /\ \E i \in 1..Len(term.sends) :
            \/ HasFractionalInt(term.sends[i].chan.quote)
            \/ \E j \in 1..Len(term.sends[i].data) :
                  HasFractionalInt(term.sends[i].data[j])

\* C3: fromJSData throws, and returns no term, for every value that is not
\* supported (a function, undefined or a fractional number, also nested in
\* an array or a map), and never produces an integer literal that holds a
\* non-integer.
C3_RejectsUnsupported ==
    (encoded # None) =>
        /\ ~IsSupported(data) => ~encoded.ok /\ par = None
        /\ encoded.ok => ~HasFractionalInt(par)

\* The rendering the printer is to give for each leaf of the model.
RefLeaf(v) ==
    CASE v = Bool(TRUE) -> <<"t", "r", "u", "e">>
      [] v = Bool(FALSE) -> <<"f", "a", "l", "s", "e">>
      [] v = IntNum(-12) -> <<"-", "1", "2">>
      [] v = Str(<<"a", "\"">>) -> <<"\"", "a", "\\", "\"", "\"">>
      [] v = Null -> <<"N", "i", "l">>

RECURSIVE Reference(_)
RECURSIVE RefItems(_)
RECURSIVE RefEntries(_)

\* The renderings of the items, joined by ", ".
RefItems(items) ==
    IF Len(items) = 0 THEN <<>>
    ELSE IF Len(items) = 1 THEN Reference(items[1])
    ELSE Reference(items[1]) \o <<",", " ">> \o RefItems(Tail(items))

\* The entries @"key"!(value), least key first, joined by " | ".
RefEntries(props) ==
    IF Len(props) = 0 THEN <<>>
    ELSE LET least == CHOOSE i \in 1..Len(props) :
                          \A j \in 1..Len(props) :
                              j # i => StrLess(props[i].key, props[j].key)
             entry == <<"@", "\"">> \o props[least].key \o <<"\"", "!", "(">>
                      \o Reference(props[least].value) \o <<")">>
             others == [i \in 1..(Len(props) - 1) |->
                           IF i < least THEN props[i] ELSE props[i + 1]]
         IN  IF Len(props) = 1 THEN entry
             ELSE entry \o <<" ", "|", " ">> \o RefEntries(others)

\* The reference rendering of a supported native value.
Reference(v) ==
    IF IsArr(v) THEN <<"[">> \o RefItems(v.arr) \o <<"]">>
    ELSE IF IsObj(v) THEN RefEntries(v.props)
    ELSE RefLeaf(v)

\* C8: printing the encoding of a supported native value gives the
\* reference rendering: bare tokens for booleans and integers, quoted text
\* for strings, Nil for null, [items joined by ", "] for an array, and
\* for a map its entries @"key"!(value) in ascending key order joined by
\* " | ".
C8_PrinterOnEncoderOutput ==
    (rholang # None /\ data # None /\ IsSupported(data)) =>
        rholang.ok /\ rholang.val = Reference(data)

\* C8's case: {"a": true, "B": -12}, the keys inserted in that order, has
\* been printed as @"B"!(-12) | @"a"!(true).
C8_Witness ==
    /\ data = ObjOf(<<<<"a">>, <<"B">>>>, <<Bool(TRUE), IntNum(-12)>>)
    /\ rholang # None
    /\ rholang.ok
    /\ rholang.val = <<"@", "\"", "B", "\"", "!", "(", "-", "1", "2", ")",
                       " ", "|", " ",
                       "@", "\"", "a", "\"", "!", "(", "t", "r", "u", "e", ")">>

\* The decoder takes the sends branch on p.
IsSendsNode(p) ==
    /\ "sends" \in DOMAIN p
    /\ ~("exprs" \in DOMAIN p /\ Len(p.exprs) > 0)

\* The key and the value the decoder computes for a send (defined when the
\* channel and the first payload decode).
KeyOf(s) == ToPropertyKey(toJSData(s.chan.quote).val)
PayloadOf(s) == toJSData(s.data[1]).val

\* The places of the first and of the last send whose channel decodes to
\* the key of send i.
FirstWithKey(sends, i) ==
    CHOOSE f \in 1..Len(sends) :
        /\ KeyOf(sends[f]) = KeyOf(sends[i])
        /\ \A g \in 1..(f - 1) : KeyOf(sends[g]) # KeyOf(sends[i])
LastWithKey(sends, i) ==
    CHOOSE l \in 1..Len(sends) :
        /\ KeyOf(sends[l]) = KeyOf(sends[i])
        /\ \A g \in (l + 1)..Len(sends) : KeyOf(sends[g]) # KeyOf(sends[i])

\* Every channel of the sends node decodes to a string.
StringChannels(p) ==
    \A i \in 1..Len(p.sends) :
        toJSData(p.sends[i].chan.quote).val.type = "string"

\* C4 as stated: when two sends of a decoded sends node have channels that
\* decode to the same key, the map holds for that key the decoded payload
\* of the later send.
C4_LaterEntryWins ==
    (/\ decoded # None
     /\ decoded.ok
     /\ IsSendsNode(par)
     /\ StringChannels(par)) =>
        \A i \in 1..Len(par.sends) :
            Get(decoded.val.props, KeyOf(par.sends[i]))
                = PayloadOf(par.sends[LastWithKey(par.sends, i)])

\* C4 as amended: when two sends of a decoded sends node have channels
\* that decode to the same key, the map holds for that key the decoded
\* (first) payload of the earliest send with that key.
C4_EarlierEntryWins ==
    (decoded # None /\ decoded.ok /\ IsSendsNode(par)) =>
        /\ IsObj(decoded.val)
        /\ \A i \in 1..Len(par.sends) :
              Get(decoded.val.props, KeyOf(par.sends[i]))
                  = PayloadOf(par.sends[FirstWithKey(par.sends, i)])

\* C4's case: a sends node in which two sends have the same key and
\* payloads that decode to different values has been decoded.
C4_Witness ==
    /\ decoded # None
    /\ decoded.ok
    /\ IsSendsNode(par)
    /\ StringChannels(par)
    /\ \E i, j \in 1..Len(par.sends) :
          /\ i < j
          /\ KeyOf(par.sends[i]) = KeyOf(par.sends[j])
          /\ PayloadOf(par.sends[i]) # PayloadOf(par.sends[j])

RECURSIVE HasBadArity(_)
\* Some send of the term, at any depth, has no payload or several.
HasBadArity(term) ==
    \/ /\ "exprs" \in DOMAIN term
       /\ \E i \in 1..Len(term.exprs) :
             /\ term.exprs[i].expr_instance = "e_list_body"
             /\ \E j \in 1..Len(term.exprs[i].e_list_body.ps) :
                   HasBadArity(term.exprs[i].e_list_body.ps[j])
    \/ /\ "sends" \in DOMAIN term
       /\ \E i \in 1..Len(term.sends) :
            \/ Len(term.sends[i].data) # 1
            \/ HasBadArity(term.sends[i].chan.quote)
            \/ \E j \in 1..Len(term.sends[i].data) :
                  HasBadArity(term.sends[i].data[j])

\* C5: toJSData and toRholang throw, and return nothing, whenever a send
\* of the term has a payload of zero elements or of more than one.
C5_PayloadArity ==
    HasBadArity(par) =>
        /\ decoded # None => ~decoded.ok
        /\ rholang # None => ~rholang.ok

\* C6: toJSData throws when the channel of a send of the sends node it
\* decodes decodes to anything but a string; the channel is never coerced
\* to a string key.
C6_NonStringChannel ==
    (decoded # None /\ IsSendsNode(par)) =>
        ((\E i \in 1..Len(par.sends) :
             LET key == toJSData(par.sends[i].chan.quote)
             IN  key.ok /\ key.val.type # "string")
         => ~decoded.ok)

RECURSIVE HasMultiExprs(_)
\* Some node of the term, at any depth (the top, a list item, a send's
\* channel or payload), holds more than one expression.
HasMultiExprs(term) ==
    \/ /\ "exprs" \in DOMAIN term
       /\ \/ Len(term.exprs) > 1
          \/ \E i \in 1..Len(term.exprs) :
                /\ term.exprs[i].expr_instance = "e_list_body"
                /\ \E j \in 1..Len(term.exprs[i].e_list_body.ps) :
                      HasMultiExprs(term.exprs[i].e_list_body.ps[j])
    \/ /\ "sends" \in DOMAIN term
       /\ \E i \in 1..Len(term.sends) :
            \/ HasMultiExprs(term.sends[i].chan.quote)
            \/ \E j \in 1..Len(term.sends[i].data) :
                  HasMultiExprs(term.sends[i].data[j])

\* C7: toJSData and toRholang both throw for every term that holds, at any
\* depth, a node of more than one expression.
C7_MultiLiteralRejection ==
    HasMultiExprs(par) =>
        /\ decoded # None => ~decoded.ok
        /\ rholang # None => ~rholang.ok

\* The first invocation of the callback reported no error and a response
\* whose status is Success.
FirstSucceeded ==
    /\ Len(invocations) > 0
    /\ ~Truthy(invocations[1].err)
    /\ invocations[1].result \notin {Undefined, Null}
    /\ "status" \in DOMAIN invocations[1].result
    /\ invocations[1].result.status = "Success"

\* C9: the promise listenForDataAtName returns is fulfilled, with
\* response.blockResults, only when the callback reported no error and
\* response.status is Success; in every other case it is rejected once the
\* handler has run, and it is never fulfilled.
C9_ListenFulfilledOnlyOnSuccess ==
    (method = "listenForDataAtName" /\ resultP # None) =>
        /\ resultP.state = "fulfilled" =>
              /\ FirstSucceeded
              /\ resultP.value = invocations[1].result.blockResults
        /\ (Len(invocations) > 0 /\ reactions = 0) =>
              resultP.state = IF FirstSucceeded THEN "fulfilled"
                              ELSE "rejected"

\* C9's cases: the promise has been fulfilled after a success that an
\* error followed, and it has been rejected after a status that is not
\* Success.
C9_Witness ==
    /\ method = "listenForDataAtName"
    /\ resultP # None
    /\ Len(invocations) > 1
    /\ \/ /\ resultP = Fulfilled(<<"block">>)
          /\ Truthy(invocations[2].err)
       \/ /\ resultP.state = "rejected"
          /\ ~Truthy(invocations[1].err)
          /\ invocations[1].result
                = [status |-> "NoSuchData", blockResults |-> <<>>]
          /\ invocations[2].result
                = [status |-> "Success", blockResults |-> <<>>]
          /\ ~Truthy(invocations[2].err)

\* C10: the promise send returns is settled by the first invocation of the
\* callback, rejected with err when err is truthy and fulfilled with
\* result otherwise, and no later invocation changes it.
C10_SendSettlesOnce ==
    (sendP # None) =>
        sendP = IF Len(invocations) = 0 THEN Pending
                ELSE IF Truthy(invocations[1].err)
                THEN Rejected(invocations[1].err)
                ELSE Fulfilled(invocations[1].result)

\* C10's case: the callback was invoked with an error and then again
\* without one, and the promise is still rejected with that error.
C10_Witness ==
    /\ sendP # None
    /\ Len(invocations) > 1
    /\ Truthy(invocations[1].err)
    /\ ~Truthy(invocations[2].err)
    /\ sendP = Rejected(invocations[1].err)

=============================================================================
